---- MODULE Spec2Model ----
(***************************************************************************)
(* Box stream (ssb-boxstream): a BoxWriter and a BoxReader over one        *)
(* transport, with the frame codec and the nonce sequence between them.    *)
(*                                                                         *)
(* Sizes are scaled: the frame buffer holds MaxBody bytes (4096 in the     *)
(* source) and an authentication tag takes TagLen wire cells (16 bytes in  *)
(* the source).  A wire cell is a record [b, t]: b is the byte value and   *)
(* t is <<>> for a data byte or, for a byte of a tag, the message the tag  *)
(* authenticates (an ideal MAC: two tags are equal only for the same key,  *)
(* nonce and ciphertext).                                                  *)
(***************************************************************************)
EXTENDS Integers, Sequences, FiniteSets, TLC

\* ------------------------------------------------------------------ bounds
MaxBody == 2
TagLen == 1
MaxTotal == 3
MaxRead == 2
MaxTamper == 1
WideBody == 258
MaxCalls == 4
MaxPeerFrames == 2

\* ------------------------------------------------------- program constants
SizeLen == 2
ByteBase == 256
HeadLen == TagLen + SizeLen + TagLen
KEY_BYTES == <<162, 29, 153, 150>>
NONCE_BYTES == <<44, 140, 79, 227, 23, 153, 202, 203, 81, 40, 114, 59,
                 56, 167, 63, 166, 201, 9, 50, 152, 0, 255, 226, 147>>

Min(a, b) == IF a <= b THEN a ELSE b

\* The caller's payload B: poll_write is handed successive slices of it.
Payload == [i \in 1..MaxTotal |-> i]

\* --------------------------------------------------------- nonce sequence
RECURSIVE Increment(_, _)

\* (mutant) the rightmost byte is incremented and no carry is taken.
Increment_NoCarry(n, i) ==
    IF i = 0 THEN n ELSE [n EXCEPT ![i] = (@ + 1) % ByteBase]

Increment(n, i) ==
    IF i = 0 THEN n
    ELSE LET b == (n[i] + 1) % ByteBase
             m == [n EXCEPT ![i] = b]
         IN  IF b # 0 THEN m ELSE Increment(m, i - 1)

\* NonceGen::next: returns the stored nonce, then increments the stored one.
NonceGen_next(g) == [nonce |-> g, gen |-> Increment(g, Len(g))]

\* -------------------------------------------------------------- secretbox
NoMac == <<>>
DataCell(v) == [b |-> v, t |-> NoMac]
ZeroCell == DataCell(0)
Zeros(n) == [i \in 1..n |-> ZeroCell]

\* The key stream byte for position i under (key, nonce).
Stream(key, nonce, i) == (key[1] + nonce[Len(nonce)] + i) % ByteBase

Crypt(cells, nonce, key) ==
    [i \in 1..Len(cells) |->
        [b |-> (cells[i].b + Stream(key, nonce, i)) % ByteBase, t |-> cells[i].t]]

Decrypt(cells, nonce, key) ==
    [i \in 1..Len(cells) |->
        [b |-> (cells[i].b + ByteBase - Stream(key, nonce, i)) % ByteBase,
         t |-> cells[i].t]]

Mac(key, nonce, cipher) == <<key, nonce, cipher>>
TagOf(m) == [i \in 1..TagLen |-> [b |-> i, t |-> m]]

\* secretbox::seal_detached: the ciphertext (same length) and its tag.
seal_detached(plain, nonce, key) ==
    LET c == Crypt(plain, nonce, key)
    IN  [c |-> c, tag |-> TagOf(Mac(key, nonce, c))]

\* secretbox::open_detached: the plaintext, if the tag authenticates.
open_detached(cipher, tag, nonce, key) ==
    IF tag = TagOf(Mac(key, nonce, cipher))
    THEN [ok |-> TRUE, plain |-> Decrypt(cipher, nonce, key)]
    ELSE [ok |-> FALSE, plain |-> <<>>]

\* ------------------------------------------------------------ frame codec
\* (mutant) the length is written low byte first.
write_u16_LittleEndian(n) ==
    LET v == n % (ByteBase * ByteBase)
    IN  <<DataCell(v % ByteBase), DataCell(v \div ByteBase)>>

\* BigEndian::write_u16(sz, len as u16), scaled to SizeLen cells.
write_u16(n) ==
    LET v == n % (ByteBase * ByteBase)
    IN  <<DataCell(v \div ByteBase), DataCell(v % ByteBase)>>

read_u16(sz) == sz[1].b * ByteBase + sz[2].b

seal_header(payload, nonce, key) ==
    LET s == seal_detached(payload, nonce, key)
    IN  s.tag \o s.c

\* (mutant) the body nonce is drawn before the head nonce.
seal_BodyNonceFirst(body, key, noncegen) ==
    LET b  == NonceGen_next(noncegen)
        h  == NonceGen_next(b.gen)
        sb == seal_detached([i \in 1..Len(body) |-> DataCell(body[i])], b.nonce, key)
        hp == write_u16(Len(body)) \o sb.tag
    IN  [head |-> seal_header(hp, h.nonce, key), body |-> sb.c, gen |-> h.gen]

\* (mutant) the head and the body are sealed under one nonce.
seal_OneNonce(body, key, noncegen) ==
    LET h  == NonceGen_next(noncegen)
        sb == seal_detached([i \in 1..Len(body) |-> DataCell(body[i])], h.nonce, key)
        hp == write_u16(Len(body)) \o sb.tag
    IN  [head |-> seal_header(hp, h.nonce, key), body |-> sb.c, gen |-> h.gen]

seal(body, key, noncegen) ==
    LET h  == NonceGen_next(noncegen)
        b  == NonceGen_next(h.gen)
        sb == seal_detached([i \in 1..Len(body) |-> DataCell(body[i])], b.nonce, key)
        hp == write_u16(Len(body)) \o sb.tag
    IN  [head |-> seal_header(hp, h.nonce, key), body |-> sb.c, gen |-> b.gen]

\* -------------------------------------------------------------- transport
(* The underlying transport.  wire is every cell the writer side has been  *)
(* handed so far, rpos the number of cells the reader side has taken, conn *)
(* is "open", "closed" (poll_close completed) or "broken" (an error was    *)
(* returned; every later write, flush or close fails too).                 *)
(* A handler runs against a budget s.k of transport steps that succeed     *)
(* (one per cell written, one per flush or close); the step after the      *)
(* budget returns s.kr, "Pending" or "Err".                                *)

\* AsyncWriteExt::write_all(todo), polled once.
write_all(s, todo) ==
    LET n    == IF s.t.conn = "open" THEN Min(s.k, Len(todo)) ELSE 0
        rest == SubSeq(todo, n + 1, Len(todo))
        fail == s.t.conn # "open" \/ s.kr = "Err"
        s1   == [s EXCEPT !.t.wire = @ \o SubSeq(todo, 1, n), !.k = @ - n]
    IN  IF rest = <<>> THEN [s |-> s1, todo |-> rest, out |-> "Ok"]
        ELSE IF fail THEN [s |-> [s1 EXCEPT !.t.conn = "broken"], todo |-> rest, out |-> "Err"]
        ELSE [s |-> s1, todo |-> rest, out |-> "Pending"]

\* One poll_flush or poll_close of the transport.
TransportStep(s) ==
    IF s.t.conn # "open" THEN [s |-> s, out |-> "Err"]
    ELSE IF s.k > 0 THEN [s |-> [s EXCEPT !.k = @ - 1], out |-> "Ok"]
    ELSE IF s.kr = "Err" THEN [s |-> [s EXCEPT !.t.conn = "broken"], out |-> "Err"]
    ELSE [s |-> s, out |-> "Pending"]

transport_poll_flush(s) ==
    LET p == TransportStep(s)
    IN  [p EXCEPT !.s.e.tflush = @ \/ (p.out = "Ok"),
                  !.s.e.errAt = IF p.out = "Err" THEN "flush" ELSE @]

transport_poll_close(s) ==
    LET p == TransportStep([s EXCEPT !.e.tclose = TRUE,
                                     !.e.tcloseEarly = @ \/ (s.e.gbw # HeadLen)])
    IN  CASE p.out = "Ok"  -> [p EXCEPT !.s.t.conn = "closed"]
          [] p.out = "Err" -> [p EXCEPT !.s.e.errAt = "close"]
          [] OTHER         -> p

\* ----------------------------------------------------------------- writer
NoFut == [started |-> FALSE, body |-> <<>>, todo |-> <<>>, goodbye |-> FALSE, done |-> FALSE]

\* BoxWriter::new
BoxWriter_new ==
    [state |-> "Buffering", v |-> <<>>, cap |-> MaxBody, sender |-> TRUE,
     noncegen |-> NONCE_BYTES, fut |-> NoFut, panicked |-> FALSE]

Res(tag, n) == [tag |-> tag, n |-> n]

\* A panic unwinds the caller: the writer is gone and its transport is dropped.
Panic(s) ==
    [s |-> [s EXCEPT !.w.panicked = TRUE,
                     !.t.conn = IF @ = "open" THEN "broken" ELSE @],
     res |-> Res("Panic", 0)]

\* (mutant) the ciphertext of the body is written before its head.
SendSealed_BodyFirst(s, sl) ==
    [s EXCEPT !.w.noncegen = sl.gen,
              !.w.fut.started = TRUE,
              !.w.fut.todo = sl.body \o sl.head,
              !.e.frames = @ + 1]

\* BoxSender::send, first poll: seal moves the nonce sequence on by two and
\* gives the head and the body to write.
SendSealed(s, sl) ==
    [s EXCEPT !.w.noncegen = sl.gen,
              !.w.fut.started = TRUE,
              !.w.fut.todo = sl.head \o sl.body,
              !.e.frames = @ + 1]

\* (mutant) a send that was pending starts its writes over at the next poll.
SendWritten_Restart(p) ==
    [s |-> [p.s EXCEPT !.w.fut.done = (p.out # "Pending"),
                       !.e.errAt = IF p.out = "Err" THEN "frame" ELSE @],
     out |-> p.out]

\* BoxSender::send, the outcome of its write_all calls in this poll.
SendWritten(p) ==
    [s |-> [p.s EXCEPT !.w.fut.todo = p.todo,
                       !.w.fut.done = (p.out # "Pending"),
                       !.e.errAt = IF p.out = "Err" THEN "frame" ELSE @],
     out |-> p.out]

SendWrite(s0) == SendWritten(write_all(s0, s0.w.fut.todo))

\* BoxSender::send, polled once: seals on the first poll, then writes the
\* head and the body.
send(s) ==
    SendWrite(IF s.w.fut.started THEN s
              ELSE SendSealed(s, seal(s.w.fut.body, KEY_BYTES, s.w.noncegen)))

\* BoxSender::send_close, first poll: the goodbye header is the all-zero
\* payload sealed under the next nonce.
CloseSealed(s, nx) ==
    [s EXCEPT !.w.noncegen = nx.gen,
              !.w.fut.started = TRUE,
              !.w.fut.todo = seal_header(Zeros(SizeLen + TagLen), nx.nonce, KEY_BYTES),
              !.e.goodbyes = @ + 1]

\* BoxSender::send_close, the outcome of its write_all in this poll.
CloseWritten(s0, p) ==
    [s |-> [p.s EXCEPT !.w.fut.todo = p.todo,
                       !.w.fut.done = (p.out # "Pending"),
                       !.e.gbw = @ + (Len(s0.w.fut.todo) - Len(p.todo)),
                       !.e.errAt = IF p.out = "Err" THEN "goodbye" ELSE @],
     out |-> p.out]

CloseWrite(s0) == CloseWritten(s0, write_all(s0, s0.w.fut.todo))

\* BoxSender::send_close, polled once: seals the goodbye header on the first
\* poll, then writes it.
send_close(s) ==
    CloseWrite(IF s.w.fut.started THEN s
               ELSE CloseSealed(s, NonceGen_next(s.w.noncegen)))

\* do_poll_flush, State::Buffering with v.len() > 0: the sender and the
\* buffer move into a send future.
StartSend(s) ==
    [s EXCEPT !.w.sender = FALSE,
              !.w.fut = [NoFut EXCEPT !.body = s.w.v],
              !.w.v = <<>>,
              !.w.state = "Sending"]

\* The Ready arm of State::Sending: the sender comes back; Ok returns to
\* Buffering with the cleared buffer, Err closes the writer.
SendDone(s, out) ==
    IF out = "Ok"
    THEN [s EXCEPT !.w.sender = TRUE, !.w.state = "Buffering", !.w.v = <<>>, !.w.fut = NoFut]
    ELSE [s EXCEPT !.w.sender = TRUE, !.w.state = "Closed", !.w.fut = NoFut]

Return(p) == [s |-> p.s, res |-> Res(p.out, 0)]

RECURSIVE do_poll_flush(_)

\* (mutant) a completed send ends the flush: the transport is not flushed.
FlushSending_NoFlush(p) ==
    CASE p.out = "Ok"  -> [s |-> SendDone(p.s, "Ok"), res |-> Res("Ok", 0)]
      [] p.out = "Err" -> [s |-> SendDone(p.s, "Err"), res |-> Res("Err", 0)]
      [] OTHER         -> Return(p)

\* do_poll_flush, State::Sending, on the send future's poll p.
FlushSending(p) ==
    CASE p.out = "Ok"  -> do_poll_flush(SendDone(p.s, "Ok"))
      [] p.out = "Err" -> [s |-> SendDone(p.s, "Err"), res |-> Res("Err", 0)]
      [] OTHER         -> Return(p)

do_poll_flush(s) ==
    CASE s.w.state = "Buffering" ->
           IF Len(s.w.v) > 0
           THEN IF ~s.w.sender THEN Panic(s) ELSE do_poll_flush(StartSend(s))
           ELSE IF s.w.sender THEN Return(transport_poll_flush(s)) ELSE Panic(s)
      [] s.w.state = "Sending" ->
           IF s.w.fut.done THEN Panic(s) ELSE FlushSending(send(s))
      [] OTHER -> Panic(s)

\* The room the frame buffer has for a poll_write of len bytes.
Room(len, v, cap) == Min(len, cap - Len(v))

\* do_poll_write, State::Buffering: n bytes of buf go into the buffer; a
\* buffer of capacity 0 is flushed at once.
Buffered(s, buf, n) ==
    [s EXCEPT !.w.v = @ \o SubSeq(buf, 1, n), !.e.acc = @ + n]

FlushedWrite(f, n) ==
    IF f.res.tag \in {"Err", "Panic"} THEN f ELSE [s |-> f.s, res |-> Res("Ok", n)]

\* (mutant) every poll_write flushes what it buffered.
WriteBuffering_Eager(s, buf, n) ==
    IF n = 0 THEN Panic(s)
    ELSE FlushedWrite(do_poll_flush(Buffered(s, buf, n)), n)

WriteBuffering(s, buf, n) ==
    IF n = 0 THEN Panic(s)
    ELSE IF s.w.cap = 0 THEN FlushedWrite(do_poll_flush(Buffered(s, buf, n)), n)
    ELSE [s |-> Buffered(s, buf, n), res |-> Res("Ok", n)]

RECURSIVE do_poll_write(_, _)

\* do_poll_write, State::Sending, on the send future's poll p.
WriteSending(p, buf) ==
    CASE p.out = "Ok"  -> do_poll_write(SendDone(p.s, "Ok"), buf)
      [] p.out = "Err" -> [s |-> SendDone(p.s, "Err"), res |-> Res("Err", 0)]
      [] OTHER         -> Return(p)

do_poll_write(s, buf) ==
    CASE s.w.state = "Buffering" ->
           WriteBuffering(s, buf, Room(Len(buf), s.w.v, s.w.cap))
      [] s.w.state = "Sending" ->
           IF s.w.fut.done THEN Panic(s) ELSE WriteSending(send(s), buf)
      [] OTHER -> Panic(s)

\* (mutant) the close goes on to the transport's poll_close with no goodbye.
StartSendClose_NoGoodbye(s) == [s EXCEPT !.w.state = "Closing"]

\* do_poll_close, after a flush that returned Ready(Ok): the sender moves
\* into a send_close future.
StartSendClose(s) ==
    [s EXCEPT !.w.sender = FALSE,
              !.w.fut = [NoFut EXCEPT !.goodbye = TRUE],
              !.w.state = "SendingClose"]

\* The Ready arms of State::SendingClose: Ok moves on to Closing; Err hands
\* the sender back and leaves the state as it is.
SendCloseDone(s, out) ==
    IF out = "Ok"
    THEN [s EXCEPT !.w.sender = TRUE, !.w.state = "Closing", !.w.fut = NoFut]
    ELSE [s EXCEPT !.w.sender = TRUE]

\* do_poll_close, State::Closing, on the transport's poll_close p.
CloseClosing(p) ==
    IF p.out = "Pending" THEN Return(p)
    ELSE [s |-> [p.s EXCEPT !.w.state = "Closed"], res |-> Res(p.out, 0)]

RECURSIVE do_poll_close(_)

\* do_poll_close, State::SendingClose, on the send_close future's poll p.
CloseSendingClose(p) ==
    CASE p.out = "Ok"  -> do_poll_close(SendCloseDone(p.s, "Ok"))
      [] p.out = "Err" -> [s |-> SendCloseDone(p.s, "Err"), res |-> Res("Err", 0)]
      [] OTHER         -> Return(p)

\* do_poll_close, any other state, on the result f of do_poll_flush.
CloseFlushed(f) ==
    IF f.res.tag = "Ok"
    THEN IF ~f.s.w.sender THEN Panic(f.s) ELSE do_poll_close(StartSendClose(f.s))
    ELSE f

do_poll_close(s) ==
    CASE s.w.state = "Closing" ->
           IF s.w.sender THEN CloseClosing(transport_poll_close(s)) ELSE Panic(s)
      [] s.w.state = "SendingClose" ->
           IF s.w.fut.done THEN Panic(s) ELSE CloseSendingClose(send_close(s))
      [] OTHER -> CloseFlushed(do_poll_flush(s))

\* BoxWriter::is_closed
BoxWriter_is_closed(w) == w.state = "Closed"

\* ----------------------------------------------------------------- reader
(* A read handler runs against a budget s.k of transport steps: one per    *)
(* cell the transport supplies and one for reporting end of input; after   *)
(* the budget the transport returns Pending.                               *)

\* (mutant) a read_exact that is suspended starts its buffer again.
read_exact_Restart(s, want) ==
    LET got   == s.r.fut.got
        avail == Len(s.t.wire) - s.t.rpos
        n     == Min(Min(want - Len(got), avail), s.k)
        s1    == [s EXCEPT !.r.fut.got = @ \o SubSeq(s.t.wire, s.t.rpos + 1, s.t.rpos + n),
                           !.t.rpos = @ + n,
                           !.k = @ - n]
    IN  IF Len(got) + n = want THEN [s |-> s1, out |-> "Ok"]
        ELSE IF s1.t.rpos = Len(s1.t.wire) /\ s1.t.conn # "open" /\ s1.k > 0
        THEN [s |-> [s1 EXCEPT !.e.eof = TRUE, !.k = @ - 1], out |-> "Eof"]
        ELSE [s |-> [s1 EXCEPT !.e.starved = TRUE, !.r.fut.got = <<>>], out |-> "Pending"]

\* AsyncReadExt::read_exact into a buffer of `want` cells, polled once; got
\* is what earlier polls have read of it.
read_exact(s, want) ==
    LET got   == s.r.fut.got
        avail == Len(s.t.wire) - s.t.rpos
        n     == Min(Min(want - Len(got), avail), s.k)
        s1    == [s EXCEPT !.r.fut.got = @ \o SubSeq(s.t.wire, s.t.rpos + 1, s.t.rpos + n),
                           !.t.rpos = @ + n,
                           !.k = @ - n]
    IN  IF Len(got) + n = want THEN [s |-> s1, out |-> "Ok"]
        ELSE IF s1.t.rpos = Len(s1.t.wire) /\ s1.t.conn # "open" /\ s1.k > 0
        THEN [s |-> [s1 EXCEPT !.e.eof = TRUE, !.k = @ - 1], out |-> "Eof"]
        ELSE [s |-> [s1 EXCEPT !.e.starved = TRUE], out |-> "Pending"]

NoRecv == [pc |-> "head_tag", got |-> <<>>, head_tag |-> <<>>, body_size |-> 0,
           body_tag |-> <<>>]

\* BoxReader::new
BoxReader_new ==
    [state |-> "Ready", receiver |-> TRUE, noncegen |-> NONCE_BYTES,
     data |-> <<>>, pos |-> 0, fut |-> NoRecv, panicked |-> FALSE]

\* (mutant) the body tag is compared with a zero array of the payload's length.
IsGoodbye_WrongLen(body_size, body_tag) ==
    body_size = 0 /\ body_tag = Zeros(SizeLen + TagLen)

\* The goodbye test of recv_helper.
IsGoodbye(body_size, body_tag) == body_size = 0 /\ body_tag = Zeros(TagLen)

\* recv_helper with the whole head read: the payload o opened under the
\* nonce nx, and the branch on it.
HeadOpened(s, nx, o) ==
    IF ~o.ok
    THEN [s |-> [s EXCEPT !.r.noncegen = nx.gen, !.e.nonces = @ + 1,
                          !.e.hpos = s.t.rpos, !.e.hfail = TRUE],
          out |-> "HeaderOpenFailed", v |-> <<>>]
    ELSE IF IsGoodbye(read_u16(SubSeq(o.plain, 1, SizeLen)),
                      SubSeq(o.plain, SizeLen + 1, SizeLen + TagLen))
    THEN [s |-> [s EXCEPT !.r.noncegen = nx.gen, !.e.nonces = @ + 1,
                          !.e.hpos = s.t.rpos, !.e.heads = @ + 1,
                          !.e.okEnd = s.t.rpos, !.e.gb = TRUE],
          out |-> "None", v |-> <<>>]
    ELSE [s |-> [s EXCEPT !.r.noncegen = nx.gen, !.e.nonces = @ + 1,
                          !.e.hpos = s.t.rpos, !.e.heads = @ + 1,
                          !.e.okEnd = s.t.rpos,
                          !.r.fut.pc = "body", !.r.fut.got = <<>>,
                          !.r.fut.body_size = read_u16(SubSeq(o.plain, 1, SizeLen)),
                          !.r.fut.body_tag = SubSeq(o.plain, SizeLen + 1, SizeLen + TagLen)],
          out |-> "Body", v |-> <<>>]

OpenHeadWith(s, nx) ==
    HeadOpened(s, nx, open_detached(s.r.fut.got, s.r.fut.head_tag, nx.nonce, KEY_BYTES))

OpenHead(s) == OpenHeadWith(s, NonceGen_next(s.r.noncegen))

\* recv_helper with the whole body read: the body o opened under the nonce nx.
BodyOpened(s, nx, o) ==
    IF ~o.ok
    THEN [s |-> [s EXCEPT !.r.noncegen = nx.gen, !.e.nonces = @ + 1, !.e.bfail = TRUE],
          out |-> "BodyOpenFailed", v |-> <<>>]
    ELSE [s |-> [s EXCEPT !.r.noncegen = nx.gen, !.e.nonces = @ + 1,
                          !.e.bodies = @ + 1, !.e.okEnd = s.t.rpos,
                          !.e.opened = @ + Len(o.plain)],
          out |-> "Some", v |-> [i \in 1..Len(o.plain) |-> o.plain[i].b]]

OpenBodyWith(s, nx) ==
    BodyOpened(s, nx, open_detached(s.r.fut.got, s.r.fut.body_tag, nx.nonce, KEY_BYTES))

OpenBody(s) == OpenBodyWith(s, NonceGen_next(s.r.noncegen))

\* A read_exact of recv_helper that did not fill its buffer: `?` returns the
\* unexpected end of input, otherwise the future is pending.
Short(p) ==
    [s |-> p.s, out |-> IF p.out = "Eof" THEN "UnexpectedEof" ELSE "Pending", v |-> <<>>]

\* BoxReceiver::recv, polled once.  out is "Pending", "Some" (with v),
\* "None", "UnexpectedEof", "HeaderOpenFailed" or "BodyOpenFailed".
RECURSIVE recv(_)

RecvHeadTag(p) ==
    IF p.out = "Ok"
    THEN recv([p.s EXCEPT !.r.fut.head_tag = p.s.r.fut.got,
                          !.r.fut.got = <<>>,
                          !.r.fut.pc = "head_payload"])
    ELSE Short(p)

RecvHead(h) == IF h.out = "Body" THEN recv(h.s) ELSE h

RecvHeadPayload(p) == IF p.out = "Ok" THEN RecvHead(OpenHead(p.s)) ELSE Short(p)

RecvBody(p) == IF p.out = "Ok" THEN OpenBody(p.s) ELSE Short(p)

recv(s) ==
    CASE s.r.fut.pc = "head_tag"     -> RecvHeadTag(read_exact(s, TagLen))
      [] s.r.fut.pc = "head_payload" -> RecvHeadPayload(read_exact(s, SizeLen + TagLen))
      [] OTHER                       -> RecvBody(read_exact(s, s.r.fut.body_size))

RPanic(s) == [s |-> [s EXCEPT !.r.panicked = TRUE], res |-> Res("Panic", 0)]

\* io::Read::read(curs, buf): the number of bytes copied.
CursorRead(len, data, pos) == Min(len, Len(data) - pos)

\* (mutant) a frame that fails to open is skipped: the reader stays open.
RecvDone_Skip(s, out, v) ==
    CASE out = "Some" -> [s EXCEPT !.r.receiver = TRUE, !.r.fut = NoRecv,
                                   !.r.state = "Data", !.r.data = v, !.r.pos = 0]
      [] out = "None" -> [s EXCEPT !.r.receiver = TRUE, !.r.fut = NoRecv,
                                   !.r.state = "Closed", !.e.ended = "goodbye"]
      [] OTHER        -> [s EXCEPT !.r.receiver = TRUE, !.r.fut = NoRecv,
                                   !.r.state = "Ready", !.e.err = out, !.e.ended = out]

\* The arms of poll_read on a completed recv future: a body becomes the
\* cursor's data, anything else closes the reader.
RecvDone(s, out, v) ==
    CASE out = "Some" -> [s EXCEPT !.r.receiver = TRUE, !.r.fut = NoRecv,
                                   !.r.state = "Data", !.r.data = v, !.r.pos = 0]
      [] OTHER        -> [s EXCEPT !.r.receiver = TRUE, !.r.fut = NoRecv,
                                   !.r.state = "Closed",
                                   !.e.err = IF out = "None" THEN @ ELSE out,
                                   !.e.ended = IF out = "None" THEN "goodbye" ELSE out]

\* (mutant) an unexpected end of input is returned as the end of the stream.
ReadResult_EofClean(out) ==
    IF out \in {"None", "UnexpectedEof"} THEN Res("Ok", 0) ELSE Res("Err", 0)

\* What poll_read returns for a recv future that completed without a body:
\* Ok(None) is the end of the stream, Err(e) is returned as e.into().
ReadResult(out) == IF out = "None" THEN Res("Ok", 0) ELSE Res("Err", 0)

RECURSIVE poll_read(_, _)

\* poll_read, State::Data, the cursor having n bytes for the buffer.
ReadData(s, len, n) ==
    IF n = 0
    THEN poll_read([s EXCEPT !.r.state = "Ready", !.r.data = <<>>, !.r.pos = 0,
                             !.e.dropped = @ + (Len(s.r.data) - s.r.pos)], len)
    ELSE [s |-> [s EXCEPT !.r.pos = @ + n,
                          !.e.delivered = @ \o SubSeq(s.r.data, s.r.pos + 1, s.r.pos + n)],
          res |-> Res("Ok", n)]

\* poll_read, State::Future, on the recv future's poll p.
ReadFuture(p, len) ==
    CASE p.out = "Pending" -> [s |-> p.s, res |-> Res("Pending", 0)]
      [] p.out = "Some"    -> poll_read(RecvDone(p.s, p.out, p.v), len)
      [] OTHER             -> [s |-> RecvDone(p.s, p.out, p.v), res |-> ReadResult(p.out)]

\* BoxReader::poll_read with an output buffer of len bytes.
poll_read(s, len) ==
    CASE s.r.state = "Ready" ->
           IF ~s.r.receiver THEN RPanic(s)
           ELSE poll_read([s EXCEPT !.r.receiver = FALSE, !.r.fut = NoRecv,
                                    !.r.state = "Future"], len)
      [] s.r.state = "Data"   -> ReadData(s, len, CursorRead(len, s.r.data, s.r.pos))
      [] s.r.state = "Future" -> ReadFuture(recv(s), len)
      [] OTHER -> RPanic(s)

\* BoxReader::is_closed
BoxReader_is_closed(r) == r.state = "Closed"

\* ------------------------------------------------------------------ state
VARIABLES
    boxw,   \* the BoxWriter: state, buffer v, sender, noncegen, send future
    boxr,   \* the BoxReader: state, receiver, noncegen, cursor, recv future
    t,      \* the transport: wire, rpos, conn, and the cells altered on the wire
    wobs,   \* what the writer's caller has seen: totals, and the last call
    robs,   \* what the reader's caller has seen: totals, and the last call
    bench   \* the codec on its own: a nonce sequence and the last result from it

vars == <<boxw, boxr, t, wobs, robs, bench>>

\* The most transport steps one writer call can take: a frame, a flush, the
\* goodbye and the close.
KMax == (HeadLen + MaxBody) + 1 + HeadLen + 1

\* The codec on its own, before any call: the nonce sequence starts at start.
NoBench(start) ==
    [start |-> start, gen |-> start, calls |-> 0, op |-> "none", gen0 |-> start,
     arg |-> <<>>, nonce |-> <<>>, head |-> <<>>, body |-> <<>>]

Init ==
    /\ bench = NoBench(NONCE_BYTES)
    /\ boxw = BoxWriter_new
    /\ boxr = BoxReader_new
    /\ t = [wire |-> <<>>, rpos |-> 0, conn |-> "open", tampered |-> {}]
    /\ wobs = [acc |-> 0, frames |-> 0, goodbyes |-> 0, gbw |-> 0,
               tclose |-> FALSE, tcloseEarly |-> FALSE, cpend |-> FALSE,
               op |-> "none", len |-> 0, res |-> Res("None", 0), tflush |-> FALSE,
               errAt |-> "none"]
    /\ robs = [delivered |-> <<>>, dropped |-> 0, opened |-> 0, nonces |-> 0,
               heads |-> 0, bodies |-> 0, hpos |-> 0, okEnd |-> 0, ended |-> "no",
               len |-> 0, res |-> Res("None", 0), err |-> "none",
               gb |-> FALSE, eof |-> FALSE, starved |-> FALSE,
               hfail |-> FALSE, bfail |-> FALSE]

\* The observations keep the totals and describe the latest call only: a
\* call on the other half, or a change on the wire, clears the per-call part.
WIdle(e) ==
    [e EXCEPT !.op = "none", !.len = 0, !.res = Res("None", 0), !.tflush = FALSE,
              !.errAt = "none"]

RIdle(e) ==
    [e EXCEPT !.len = 0, !.res = Res("None", 0), !.err = "none",
              !.gb = FALSE, !.eof = FALSE, !.starved = FALSE]

\* The writer's side of a call: the writer, the transport, the observations
\* with the per-call ones reset, and the transport's budget for this call.
WCall(op, len, k, kr) ==
    [w |-> boxw, t |-> t, k |-> k, kr |-> kr,
     e |-> [WIdle(wobs) EXCEPT !.op = op, !.len = len]]

WReturn(x) ==
    /\ boxw' = x.s.w
    /\ t' = x.s.t
    /\ wobs' = [x.s.e EXCEPT !.res = x.res,
                              !.cpend = @ \/ (x.s.e.op = "poll_close" /\ x.res.tag = "Pending")]
    /\ robs' = RIdle(robs)
    /\ UNCHANGED <<boxr, bench>>

\* The transport's answers within one call: it lets the first k steps of
\* the call succeed and answers the next one with kr, or (the full call)
\* lets every step succeed.  Steps is the number of steps the full call takes.
Steps(full, k0) == k0 - full.s.k

\* A writer call as the transport may answer it, full being the full call.
WriteCalls(op, len, buf, full) ==
    \/ WReturn(full)
    \/ \E k \in 0..(Steps(full, KMax) - 1), kr \in {"Pending", "Err"} :
          \/ /\ op = "poll_write"
             /\ WReturn(do_poll_write(WCall(op, len, k, kr), buf))
          \/ /\ op = "poll_flush"
             /\ WReturn(do_poll_flush(WCall(op, len, k, kr)))
          \/ /\ op = "poll_close"
             /\ WReturn(do_poll_close(WCall(op, len, k, kr)))

\* AsyncWrite::poll_write(buf), buf being the next len bytes of the payload.
PollWrite ==
    /\ ~boxw.panicked
    /\ \E len \in 0..(MaxTotal - wobs.acc) :
          WriteCalls("poll_write", len, SubSeq(Payload, wobs.acc + 1, wobs.acc + len),
                     do_poll_write(WCall("poll_write", len, KMax, "Pending"),
                                   SubSeq(Payload, wobs.acc + 1, wobs.acc + len)))

\* AsyncWrite::poll_flush
PollFlush ==
    /\ ~boxw.panicked
    /\ WriteCalls("poll_flush", 0, <<>>, do_poll_flush(WCall("poll_flush", 0, KMax, "Pending")))

\* AsyncWrite::poll_close
PollClose ==
    /\ ~boxw.panicked
    /\ WriteCalls("poll_close", 0, <<>>, do_poll_close(WCall("poll_close", 0, KMax, "Pending")))

\* The wire with cell i altered in transit (i = 0: unaltered).
Altered(tr, i) ==
    IF i = 0 THEN tr
    ELSE [tr EXCEPT !.wire[i].b = (@ + 1) % ByteBase, !.tampered = @ \cup {i}]

RCall(len, k, flip) ==
    [r |-> boxr, t |-> Altered(t, flip), k |-> k,
     e |-> [RIdle(robs) EXCEPT !.len = len]]

RReturn(x) ==
    /\ boxr' = x.s.r
    /\ t' = x.s.t
    /\ robs' = [x.s.e EXCEPT !.res = x.res]
    /\ wobs' = WIdle(wobs)
    /\ UNCHANGED <<boxw, bench>>

\* A read call as the transport may answer it: the full call, or one that
\* is supplied k cells only (the altered one among them).
ReadCalls(len, flip, k0, full) ==
    \/ RReturn(full)
    \/ \E k \in (IF flip = 0 THEN 0 ELSE flip - t.rpos)..(Steps(full, k0) - 1) :
          RReturn(poll_read(RCall(len, k, flip), len))

\* The cells one of which may be altered during a call that can take the
\* cells up to reach.
Flips(reach) ==
    {0} \cup {i \in (t.rpos + 1)..reach : Cardinality(t.tampered) < MaxTamper}

\* AsyncRead::poll_read(out) with an output buffer of len bytes.  One of the
\* cells the transport supplies during the call may have been altered on the
\* wire.
PollRead ==
    /\ ~boxr.panicked
    /\ \E len \in 0..MaxRead :
          \E flip \in Flips(poll_read(RCall(len, Len(t.wire) - t.rpos + 1, 0), len).s.t.rpos) :
             ReadCalls(len, flip, Len(t.wire) - t.rpos + 1,
                       poll_read(RCall(len, Len(t.wire) - t.rpos + 1, flip), len))

Next == PollWrite \/ PollFlush \/ PollClose \/ PollRead

Spec == Init /\ [][Next]_vars

\* ------------------------------------------------------ the codec on its own
(* seal, seal_header and NonceGen::next called directly, as the tests       *)
(* encrypt and increment do, from a set of starting nonces that has the     *)
(* carries in it, and on bodies that include one longer than a byte counts. *)
LastByte == ByteBase - 1
EdgeBytes == {0, LastByte - 1, LastByte}
NonceLen == Len(NONCE_BYTES)

\* A nonce whose first bytes are all p and whose last three are a, b, c.
EdgeNonce(p, a, b, c) == [i \in 1..(NonceLen - 3) |-> p] \o <<a, b, c>>

StartNonces ==
    {NONCE_BYTES} \cup
    {EdgeNonce(p, a, b, c) : p \in {0, LastByte}, a \in EdgeBytes, b \in EdgeBytes, c \in EdgeBytes}

BodyLens == (0..MaxBody) \cup {WideBody}
Bodies ==
    {[i \in 1..n |-> (i - 1) % ByteBase] : n \in BodyLens} \cup
    {[i \in 1..n |-> (n - i) % ByteBase] : n \in BodyLens}

CodecInit ==
    /\ bench \in {NoBench(n) : n \in StartNonces}
    /\ boxw = BoxWriter_new
    /\ boxr = BoxReader_new
    /\ t = [wire |-> <<>>, rpos |-> 0, conn |-> "open", tampered |-> {}]
    /\ wobs = [acc |-> 0, frames |-> 0, goodbyes |-> 0, gbw |-> 0,
               tclose |-> FALSE, tcloseEarly |-> FALSE, cpend |-> FALSE,
               op |-> "none", len |-> 0, res |-> Res("None", 0), tflush |-> FALSE,
               errAt |-> "none"]
    /\ robs = [delivered |-> <<>>, dropped |-> 0, opened |-> 0, nonces |-> 0,
               heads |-> 0, bodies |-> 0, hpos |-> 0, okEnd |-> 0, ended |-> "no",
               len |-> 0, res |-> Res("None", 0), err |-> "none",
               gb |-> FALSE, eof |-> FALSE, starved |-> FALSE,
               hfail |-> FALSE, bfail |-> FALSE]

\* The result of a call on the codec, which drew `drawn` nonces.
Benched(op, arg, drawn, gen, nonce, head, body) ==
    /\ bench.calls + drawn <= MaxCalls
    /\ bench' = [bench EXCEPT !.op = op, !.arg = arg, !.gen0 = bench.gen, !.gen = gen,
                              !.calls = @ + drawn, !.nonce = nonce,
                              !.head = head, !.body = body]
    /\ UNCHANGED <<boxw, boxr, t, wobs, robs>>

NextNonce(nx) == Benched("next", <<>>, 1, nx.gen, nx.nonce, <<>>, <<>>)

Sealed(body, sl) == Benched("seal", body, 2, sl.gen, <<>>, sl.head, sl.body)

SealedGoodbye(nx) ==
    Benched("goodbye", <<>>, 1, nx.gen, <<>>,
            seal_header(Zeros(SizeLen + TagLen), nx.nonce, KEY_BYTES), <<>>)

\* noncegen.next()
CodecNext == NextNonce(NonceGen_next(bench.gen))

\* seal(body, &key, &mut noncegen)
CodecSeal == \E body \in Bodies : Sealed(body, seal(body, KEY_BYTES, bench.gen))

\* seal_header(&mut [0; 18], noncegen.next(), &key)
CodecGoodbye == SealedGoodbye(NonceGen_next(bench.gen))

CodecStep == CodecNext \/ CodecSeal \/ CodecGoodbye

CodecSpec == CodecInit /\ [][CodecStep]_vars

\* ------------------------------------------- a reader and an unlimited peer
(* The reader alone, on a stream from a peer that holds the key and the     *)
(* starting nonce and seals with the same codec, but keeps no limit on the  *)
(* size of a body: bodies have 1..MaxBody + 1 bytes.                        *)
RECURSIVE PeerFrames(_, _)
PeerFrame(sl, rest) == [wire |-> sl.head \o sl.body \o rest.wire, gen |-> rest.gen]

PeerRest(sizes, sl) == PeerFrame(sl, PeerFrames(Tail(sizes), sl.gen))

\* The frames of bodies of the given sizes, sealed one after the other.
PeerFrames(sizes, gen) ==
    IF sizes = <<>> THEN [wire |-> <<>>, gen |-> gen]
    ELSE PeerRest(sizes, seal([i \in 1..Head(sizes) |-> i], KEY_BYTES, gen))

PeerGoodbye(p) ==
    p.wire \o seal_header(Zeros(SizeLen + TagLen), NonceGen_next(p.gen).nonce, KEY_BYTES)

PeerSizes ==
    UNION {[1..n -> 1..(MaxBody + 1)] : n \in 0..MaxPeerFrames}

PeerStreams ==
    {PeerFrames(sz, NONCE_BYTES).wire : sz \in PeerSizes} \cup
    {PeerGoodbye(PeerFrames(sz, NONCE_BYTES)) : sz \in PeerSizes}

PeerInit ==
    /\ bench = NoBench(NONCE_BYTES)
    /\ boxw = BoxWriter_new
    /\ boxr = BoxReader_new
    /\ \E w \in PeerStreams, c \in {"open", "closed"} :
          t = [wire |-> w, rpos |-> 0, conn |-> c, tampered |-> {}]
    /\ wobs = [acc |-> 0, frames |-> 0, goodbyes |-> 0, gbw |-> 0,
               tclose |-> FALSE, tcloseEarly |-> FALSE, cpend |-> FALSE,
               op |-> "none", len |-> 0, res |-> Res("None", 0), tflush |-> FALSE,
               errAt |-> "none"]
    /\ robs = [delivered |-> <<>>, dropped |-> 0, opened |-> 0, nonces |-> 0,
               heads |-> 0, bodies |-> 0, hpos |-> 0, okEnd |-> 0, ended |-> "no",
               len |-> 0, res |-> Res("None", 0), err |-> "none",
               gb |-> FALSE, eof |-> FALSE, starved |-> FALSE,
               hfail |-> FALSE, bfail |-> FALSE]

PeerSpec == PeerInit /\ [][PollRead]_vars

\* ------------------------------------------------ giving the transport back
(* Spec with into_inner: either half may be consumed by into_inner between *)
(* two calls.  A run is followed up to its first into_inner.               *)

\* BoxWriter::into_inner: self.sender.take().unwrap(), then s.writer.
BoxWriter_into_inner(w) ==
    IF w.sender THEN [w |-> [w EXCEPT !.sender = FALSE], res |-> Res("Ok", 0)]
    ELSE [w |-> [w EXCEPT !.panicked = TRUE], res |-> Res("Panic", 0)]

\* BoxReader::into_inner: self.receiver.take().unwrap(), then r.reader.
BoxReader_into_inner(r) ==
    IF r.receiver THEN [r |-> [r EXCEPT !.receiver = FALSE], res |-> Res("Ok", 0)]
    ELSE [r |-> [r EXCEPT !.panicked = TRUE], res |-> Res("Panic", 0)]

\* Both halves are still held by their callers.
Held == wobs.op # "into_inner" /\ robs.err # "into_inner"

WriterTaken(x) ==
    /\ boxw' = x.w
    /\ wobs' = [WIdle(wobs) EXCEPT !.op = "into_inner", !.res = x.res]
    /\ UNCHANGED <<boxr, t, robs, bench>>

ReaderTaken(x) ==
    /\ boxr' = x.r
    /\ robs' = [RIdle(robs) EXCEPT !.err = "into_inner", !.res = x.res]
    /\ UNCHANGED <<boxw, t, wobs, bench>>

WriterIntoInner == Held /\ ~boxw.panicked /\ WriterTaken(BoxWriter_into_inner(boxw))

ReaderIntoInner == Held /\ ~boxr.panicked /\ ReaderTaken(BoxReader_into_inner(boxr))

HeldPollWrite == Held /\ PollWrite

HeldPollFlush == Held /\ PollFlush

HeldPollClose == Held /\ PollClose

HeldPollRead == Held /\ PollRead

OwnerNext ==
    \/ HeldPollWrite \/ HeldPollFlush \/ HeldPollClose \/ HeldPollRead
    \/ WriterIntoInner \/ ReaderIntoInner

OwnerSpec == Init /\ [][OwnerNext]_vars

\* ---------------------------------------------- callers that drive a run on
(* The two halves over a transport that returns no error and alters no     *)
(* cell, each driven by a caller that passes non-empty buffers, makes the  *)
(* same call again after Pending, and stops at the end: the writer's after *)
(* poll_close has returned Ready, the reader's after the end of the        *)
(* stream.  A call is answered after k transport steps with Pending; the   *)
(* fairness conditions say that a call that can change something is made   *)
(* in the end, and that the writer's caller closes in the end.             *)

LiveWReturn(x) ==
    /\ boxw' = x.s.w
    /\ t' = x.s.t
    /\ wobs' = [x.s.e EXCEPT !.res = x.res,
                              !.cpend = @ \/ (x.s.e.op = "poll_close" /\ x.res.tag = "Pending")]
    /\ UNCHANGED <<boxr, robs, bench>>

LiveRReturn(x) ==
    /\ boxr' = x.s.r
    /\ t' = x.s.t
    /\ robs' = [x.s.e EXCEPT !.res = x.res]
    /\ UNCHANGED <<boxw, wobs, bench>>

\* The writer's caller has a call to make, and after Pending it is op again.
Polls(op) ==
    /\ ~boxw.panicked
    /\ ~BoxWriter_is_closed(boxw)
    /\ wobs.res.tag \in {"None", "Ok", "Pending"}
    /\ wobs.res.tag = "Pending" => wobs.op = op

\* The buffer lengths of the next poll_write / poll_read.
WriteLens == IF wobs.res.tag = "Pending" THEN {wobs.len} ELSE 1..(MaxTotal - wobs.acc)
ReadLens == IF robs.res.tag = "Pending" THEN {robs.len} ELSE 1..MaxRead

LiveWrite ==
    /\ Polls("poll_write")
    /\ \E len \in WriteLens, k \in 0..KMax :
          LiveWReturn(do_poll_write(WCall("poll_write", len, k, "Pending"),
                                    SubSeq(Payload, wobs.acc + 1, wobs.acc + len)))

LiveFlush ==
    /\ Polls("poll_flush")
    /\ \E k \in 0..KMax : LiveWReturn(do_poll_flush(WCall("poll_flush", 0, k, "Pending")))

LiveClose ==
    /\ Polls("poll_close")
    /\ \E k \in 0..KMax : LiveWReturn(do_poll_close(WCall("poll_close", 0, k, "Pending")))

LiveRead ==
    /\ ~boxr.panicked
    /\ ~BoxReader_is_closed(boxr)
    /\ \E len \in ReadLens, k \in 0..(Len(t.wire) - t.rpos + 1) :
          LiveRReturn(poll_read(RCall(len, k, 0), len))

LiveNext == LiveWrite \/ LiveFlush \/ LiveClose \/ LiveRead

LiveSpec ==
    /\ Init /\ [][LiveNext]_vars
    /\ WF_vars(LiveWrite) /\ WF_vars(LiveFlush) /\ SF_vars(LiveClose)
    /\ WF_vars(LiveRead)

\* ----------------------------------------------------------------- claims
IsPrefix(a, b) == Len(a) <= Len(b) /\ a = SubSeq(b, 1, Len(a))

\* The bytes the writer has accepted so far.
Accepted == SubSeq(Payload, 1, wobs.acc)

\* The writer has flushed everything it accepted, and the reader has taken
\* every cell of the wire and handed out every byte of its cursor.
Flushed == boxw.state = "Buffering" /\ boxw.v = <<>>
Drained ==
    /\ t.rpos = Len(t.wire)
    /\ boxr.state \in {"Data", "Future"}
    /\ boxr.state = "Data" => boxr.pos = Len(boxr.data)
    /\ boxr.state = "Future" => boxr.fut = NoRecv

\* C1: round trip in order. The bytes the reader has delivered are at every
\* moment a prefix of the bytes the writer has accepted, and once the writer
\* has flushed and the reader has drained the transport they are equal.
C1_RoundTrip ==
    /\ IsPrefix(robs.delivered, Accepted)
    /\ (Flushed /\ Drained /\ t.tampered = {}) => robs.delivered = Accepted

\* A step that is a call on the writer, and one that is a poll_read.
WriterCall == wobs'.op # "none"
ReaderCall == robs'.res.tag # "None"

\* C2: multi-frame splitting is transparent. A poll_write with a non-empty
\* buf on a writer that is buffering or sending (the buffer may just have
\* been filled by the poll_write before it) accepts at least one byte, or is
\* pending or fails with the transport: it does not panic.
C2_Splitting ==
    [][(WriterCall /\ wobs'.op = "poll_write" /\ wobs'.len > 0
            /\ boxw.state \in {"Buffering", "Sending"})
         => /\ wobs'.res.tag \in {"Ok", "Pending", "Err"}
            /\ wobs'.res.tag = "Ok" =>
                  (wobs'.res.n >= 1 /\ wobs'.acc = wobs.acc + wobs'.res.n)]_vars

\* C3: frame-size independence. With plaintext left in the cursor,
\* poll_read(out) returns Ready(n) with n = min(len(out), bytes left),
\* delivers exactly those bytes and drops none.
C3_FrameSizeIndependence ==
    [][(ReaderCall /\ boxr.state = "Data" /\ boxr.pos < Len(boxr.data))
         => /\ robs'.res = Res("Ok", Min(robs'.len, Len(boxr.data) - boxr.pos))
            /\ robs'.delivered =
                  robs.delivered \o SubSeq(boxr.data, boxr.pos + 1, boxr.pos + robs'.res.n)
            /\ robs'.dropped = robs.dropped]_vars

\* C4: poll_close driven to completion. At most one goodbye is ever sealed;
\* when it is sealed every accepted byte has been sealed and written in whole
\* frames; the transport's poll_close is called only with the goodbye
\* completely written; and when poll_close returns Ready(Ok) exactly one
\* goodbye is on the wire, the transport is closed and the writer is Closed.
C4_CloseOrder ==
    /\ wobs.goodbyes <= 1
    /\ wobs.goodbyes = 1 =>
          /\ boxw.v = <<>>
          /\ Len(t.wire) = wobs.frames * HeadLen + wobs.acc + wobs.gbw
    /\ wobs.tclose => (wobs.goodbyes = 1 /\ wobs.gbw = HeadLen /\ ~wobs.tcloseEarly)
    /\ (wobs.op = "poll_close" /\ wobs.res.tag = "Ok") =>
          /\ BoxWriter_is_closed(boxw)
          /\ wobs.goodbyes = 1 /\ wobs.gbw = HeadLen
          /\ wobs.tclose /\ t.conn = "closed"

\* A close that returned Pending at least once, had bytes to flush and has
\* now returned Ready(Ok).
C4_Witness ==
    /\ wobs.op = "poll_close" /\ wobs.res.tag = "Ok"
    /\ wobs.cpend /\ wobs.frames >= 1

\* The writer's close has completed and the reader has delivered every byte
\* the writer accepted, and has not yet seen the end of the stream.
CloseCompleted == BoxWriter_is_closed(boxw) /\ t.conn = "closed"
AllRead == robs.delivered = Accepted /\ robs.dropped = 0 /\ robs.ended = "no"

\* C5: clean close as seen by the reader. After the writer's close has
\* completed and the reader has read all prior bytes, is_closed() is still
\* false; the next poll_read (on an unaltered wire) returns Ready(Ok(0)),
\* unless the transport keeps it pending; is_closed() is true after that read
\* and stays true.
C5_CleanClose ==
    [][/\ (CloseCompleted /\ AllRead) => ~BoxReader_is_closed(boxr)
       /\ (ReaderCall /\ CloseCompleted /\ AllRead /\ t'.tampered = {}) =>
             /\ robs'.res \in {Res("Ok", 0), Res("Pending", 0)}
             /\ ~robs'.starved => robs'.res = Res("Ok", 0)
             /\ robs'.res = Res("Ok", 0) => BoxReader_is_closed(boxr')
       /\ BoxReader_is_closed(boxr) => BoxReader_is_closed(boxr')]_vars

\* The reader has delivered the payload and its last read returned Ok(0).
C5_Witness ==
    /\ CloseCompleted
    /\ robs.delivered = Accepted /\ wobs.acc >= 1
    /\ robs.res = Res("Ok", 0) /\ BoxReader_is_closed(boxr)

\* C6: end of stream only by a goodbye. poll_read returns Ready(Ok(0))
\* exactly when its recv opened a goodbye header, which is the goodbye the
\* writer sealed, read whole and unaltered; an end of input before a whole
\* head or body is an UnexpectedEof error.
C6_EndOfStream ==
    /\ (robs.res = Res("Ok", 0)) <=> robs.gb
    /\ robs.gb =>
          /\ wobs.goodbyes = 1 /\ wobs.gbw = HeadLen
          /\ t.rpos = Len(t.wire) /\ robs.okEnd = t.rpos
          /\ t.tampered = {}
    /\ robs.eof <=> robs.err = "UnexpectedEof"
    /\ robs.eof => (robs.res = Res("Err", 0) /\ ~robs.gb /\ BoxReader_is_closed(boxr))

\* The transport ended inside a frame and the read returned the error.
C6_Witness == robs.eof /\ t.rpos > robs.okEnd /\ robs.res.tag = "Err"

\* The bytes of the reader's cursor not handed out yet.
InCursor == IF boxr.state = "Data" THEN Len(boxr.data) - boxr.pos ELSE 0

\* C7: a decrypt failure is fatal and never skipped. A head or body that
\* does not authenticate ends the read with HeaderOpenFailed or
\* BodyOpenFailed and closes the reader; after a head failure no body cell
\* is read and no further nonce drawn; no successful open covers an altered
\* cell, only plaintext of opened bodies is handed out, and a frame with an
\* altered cell, once read whole, has closed the reader.
C7_DecryptFatal ==
    /\ robs.hfail =>
          /\ robs.ended = "HeaderOpenFailed" /\ BoxReader_is_closed(boxr)
          /\ t.rpos = robs.hpos /\ ~robs.bfail
          /\ robs.nonces = robs.heads + robs.bodies + 1
    /\ robs.bfail =>
          /\ robs.ended = "BodyOpenFailed" /\ BoxReader_is_closed(boxr)
          /\ robs.nonces = robs.heads + robs.bodies + 1
    /\ robs.err \in {"HeaderOpenFailed", "BodyOpenFailed"} => robs.res = Res("Err", 0)
    /\ \A i \in t.tampered : robs.okEnd < i
    /\ Len(robs.delivered) + robs.dropped + InCursor = robs.opened
    /\ (t.tampered # {} /\ boxr.state # "Future") =>
          /\ BoxReader_is_closed(boxr)
          /\ robs.ended \in {"HeaderOpenFailed", "BodyOpenFailed", "UnexpectedEof"}

\* A body that was altered on the wire under a head that opened.
C7_Witness == robs.bfail /\ robs.res = Res("Err", 0) /\ t.tampered # {}

\* C8: once the reader is in its terminal state, every further poll_read
\* returns Ready(Ok(0)) and is_closed() stays true.
C8_ReadAfterEnd ==
    [][(ReaderCall /\ BoxReader_is_closed(boxr))
         => (robs'.res = Res("Ok", 0) /\ BoxReader_is_closed(boxr'))]_vars

\* C9: once the writer is Closed, poll_write returns Ready(Ok(0)), poll_flush
\* and poll_close return Ready(Ok(())), is_closed() stays true and nothing is
\* written to the transport.
C9_WriterAfterClosed ==
    [][(WriterCall /\ BoxWriter_is_closed(boxw))
         => /\ wobs'.res = Res("Ok", 0)
            /\ BoxWriter_is_closed(boxw')
            /\ t'.wire = t.wire]_vars

\* C10: writer error policy. A transport error while a data frame or the
\* goodbye header is written, or from the transport's poll_close, is
\* returned by the call in progress and leaves the writer Closed.
C10_ErrorPolicy ==
    wobs.errAt \in {"frame", "goodbye", "close"} =>
        (wobs.res.tag = "Err" /\ BoxWriter_is_closed(boxw))

\* C11: poll_write with a zero-length buf on a buffering writer returns
\* Ready(Ok(0)) and changes neither the writer (state, buffer, nonce
\* sequence) nor the transport.
C11_ZeroLengthWrite ==
    [][(WriterCall /\ wobs'.op = "poll_write" /\ wobs'.len = 0
            /\ boxw.state = "Buffering")
         => (wobs'.res = Res("Ok", 0) /\ boxw' = boxw /\ t' = t)]_vars

\* The cells the writer has handed to the transport, in order (a cell
\* altered in transit is taken as it was written).
Written ==
    [i \in 1..Len(t.wire) |->
        IF i \in t.tampered
        THEN [t.wire[i] EXCEPT !.b = (@ + ByteBase - 1) % ByteBase]
        ELSE t.wire[i]]

Drop(w, n) == SubSeq(w, n + 1, Len(w))

\* What a receiver holding the key and the starting nonce makes of a
\* stream: ok (every whole header and body authenticates, with a body size
\* in 1..MaxBody), the plaintext of the whole frames, their number, the
\* number of goodbyes, the cells of a last frame that is not whole (part)
\* and the cells after the first goodbye (after).
NoStream == [ok |-> TRUE, plain |-> <<>>, frames |-> 0, gb |-> 0, part |-> 0, after |-> 0]

RECURSIVE Decode(_, _, _)

DecodeBody(w, gen, d, size, tag) ==
    IF IsGoodbye(size, tag) THEN [d EXCEPT !.gb = 1, !.after = Len(w)]
    ELSE IF size < 1 \/ size > MaxBody THEN [d EXCEPT !.ok = FALSE]
    ELSE IF Len(w) < size THEN [d EXCEPT !.part = HeadLen + Len(w)]
    ELSE LET bn == NonceGen_next(gen)
             o  == open_detached(SubSeq(w, 1, size), tag, bn.nonce, KEY_BYTES)
         IN  IF ~o.ok THEN [d EXCEPT !.ok = FALSE]
             ELSE Decode(Drop(w, size), bn.gen,
                         [d EXCEPT !.frames = @ + 1,
                                   !.plain = @ \o [i \in 1..size |-> o.plain[i].b]])

Decode(w, gen, d) ==
    IF w = <<>> THEN d
    ELSE IF Len(w) < HeadLen THEN [d EXCEPT !.part = Len(w)]
    ELSE LET hn == NonceGen_next(gen)
             o  == open_detached(SubSeq(w, TagLen + 1, HeadLen), SubSeq(w, 1, TagLen),
                                 hn.nonce, KEY_BYTES)
         IN  IF ~o.ok THEN [d EXCEPT !.ok = FALSE]
             ELSE DecodeBody(Drop(w, HeadLen), hn.gen, d,
                             read_u16(SubSeq(o.plain, 1, SizeLen)),
                             SubSeq(o.plain, SizeLen + 1, SizeLen + TagLen))

Decoded == Decode(Written, NONCE_BYTES, NoStream)

\* C12: flush postcondition. When poll_flush returns Ready(Ok(())) the
\* frame buffer is empty, the transport holds whole frames only, whose
\* plaintext is every byte accepted so far, and the transport's poll_flush
\* has returned Ready(Ok) in this call. A poll_flush on an empty buffer
\* seals no frame and writes nothing.
C12_FlushPostcondition ==
    /\ [](wobs.op = "poll_flush" /\ wobs.res.tag = "Ok" =>
             /\ boxw.state = "Buffering" /\ boxw.v = <<>>
             /\ wobs.tflush
             /\ Decoded = [NoStream EXCEPT !.frames = wobs.frames, !.plain = Accepted])
    /\ [][(WriterCall /\ wobs'.op = "poll_flush"
               /\ boxw.state = "Buffering" /\ boxw.v = <<>>)
            => /\ Len(t'.wire) = Len(t.wire)
               /\ wobs'.frames = wobs.frames
               /\ boxw'.noncegen = boxw.noncegen]_vars

\* A flush that returned Ready(Ok) with two frames sealed so far.
C12_Witness ==
    /\ wobs.op = "poll_flush" /\ wobs.res.tag = "Ok"
    /\ wobs.frames >= 2 /\ wobs.acc >= 2 /\ wobs.tflush

\* C13: buffering until flush. A poll_write on a buffering writer seals no
\* frame and writes nothing to the transport: the accepted bytes are added
\* to the frame buffer. Cells reach the transport only in a poll_flush or
\* poll_close, or in a call that goes on with a frame one of them started.
C13_BufferUntilFlush ==
    [][/\ (WriterCall /\ wobs'.op = "poll_write" /\ boxw.state = "Buffering") =>
             /\ Len(t'.wire) = Len(t.wire)
             /\ wobs'.frames = wobs.frames
             /\ wobs'.res.tag = "Ok" =>
                   boxw'.v = boxw.v \o SubSeq(Payload, wobs.acc + 1, wobs.acc + wobs'.res.n)
       /\ Len(t'.wire) # Len(t.wire) =>
             (wobs'.op \in {"poll_flush", "poll_close"} \/ boxw.state = "Sending")
       /\ wobs'.frames # wobs.frames => wobs'.op \in {"poll_flush", "poll_close"}]_vars

\* A poll_write has been accepted into the buffer, which is not full, and
\* the transport has seen nothing.
C13_Witness ==
    /\ wobs.op = "poll_write" /\ wobs.res.tag = "Ok" /\ wobs.res.n >= 1
    /\ Len(boxw.v) = wobs.acc /\ Len(boxw.v) < MaxBody
    /\ t.wire = <<>>

\* The nonce sequence g moved on n times.
RECURSIVE Advance(_, _)
Advance(g, n) == IF n = 0 THEN g ELSE Advance(NonceGen_next(g).gen, n - 1)

\* The writer's nonce sequence has advanced by two for each frame sealed and
\* by one for the goodbye.
WriterNonceSync ==
    boxw.noncegen = Advance(NONCE_BYTES, 2 * wobs.frames + wobs.goodbyes)

\* The opens of the reader that failed (the reader stops at the first).
FailedOpens == IF robs.hfail \/ robs.bfail THEN 1 ELSE 0

C15_WireFormat ==
    LET d == Decoded
    IN  /\ d.ok
        /\ d.after = 0
        /\ IsPrefix(d.plain, Accepted)
        /\ Len(t.wire) = d.frames * HeadLen + Len(d.plain) + d.part + d.gb * HeadLen
        /\ wobs.frames - d.frames \in {0, 1}
        /\ wobs.goodbyes = 1 => d.frames = wobs.frames
        /\ d.gb = 1 => (d.part = 0 /\ wobs.goodbyes = 1)

\* A whole stream: two frames and the goodbye.
C15_Witness == Decoded.frames >= 2 /\ Decoded.gb = 1 /\ Len(Decoded.plain) = MaxTotal

\* The cells of a plaintext body.
Cells(body) == [i \in 1..Len(body) |-> DataCell(body[i])]

HeadTag(head) == SubSeq(head, 1, TagLen)
HeadBox(head) == SubSeq(head, TagLen + 1, Len(head))

\* The head opens under nonce to the payload of a body of n bytes with tag.
OpensTo(head, nonce, n, tag) ==
    LET o == open_detached(HeadBox(head), HeadTag(head), nonce, KEY_BYTES)
    IN  /\ o.ok
        /\ Len(o.plain) = SizeLen + TagLen
        /\ o.plain[1].b = (n \div ByteBase) % ByteBase
        /\ o.plain[2].b = n % ByteBase
        /\ SubSeq(o.plain, SizeLen + 1, SizeLen + TagLen) = tag

\* C16: frame sealing layout. seal draws head_nonce and then body_nonce;
\* the body it returns is the ciphertext of the plaintext under body_nonce,
\* of the same length; the head is HeadLen cells, the header tag followed by
\* the payload sealed under head_nonce, the payload being the body length as
\* a big-endian u16 followed by the body tag; the sequence has moved on by
\* two. A goodbye is the all-zero payload sealed under the single next nonce.
C16_SealLayout ==
    LET h == NonceGen_next(bench.gen0)
        b == NonceGen_next(h.gen)
        c == seal_detached(Cells(bench.arg), b.nonce, KEY_BYTES)
    IN  /\ bench.op = "seal" =>
              /\ Len(bench.body) = Len(bench.arg)
              /\ bench.body = c.c
              /\ open_detached(bench.body, c.tag, b.nonce, KEY_BYTES).plain = Cells(bench.arg)
              /\ Len(bench.head) = HeadLen
              /\ OpensTo(bench.head, h.nonce, Len(bench.arg), c.tag)
              /\ ~open_detached(HeadBox(bench.head), HeadTag(bench.head), b.nonce, KEY_BYTES).ok
              /\ bench.gen = b.gen
        /\ bench.op = "goodbye" =>
              /\ Len(bench.head) = HeadLen
              /\ OpensTo(bench.head, h.nonce, 0, Zeros(TagLen))
              /\ bench.gen = h.gen

\* The second seal in a row, of a body longer than one byte counts.
C16_Witness ==
    /\ bench.op = "seal" /\ bench.calls = 4
    /\ Len(bench.arg) >= ByteBase /\ Len(bench.body) = Len(bench.arg)

\* n + 1 as a big-endian number of Len(n) bytes, wrapping to zero: the bytes
\* right of the last byte that is not 0xFF become 0 and that byte goes up by
\* one.
Succ(n) ==
    LET low == {i \in 1..Len(n) : n[i] # LastByte}
        j   == IF low = {} THEN 0 ELSE CHOOSE i \in low : \A k \in low : k <= i
    IN  [i \in 1..Len(n) |-> IF i < j THEN n[i] ELSE IF i = j THEN n[i] + 1 ELSE 0]

RECURSIVE Plus(_, _)
Plus(n, i) == IF i = 0 THEN n ELSE Plus(Succ(n), i - 1)

\* The value of the last three bytes of a nonce.
Low3(n) ==
    (n[Len(n) - 2] * ByteBase + n[Len(n) - 1]) * ByteBase + n[Len(n)]

\* C17: NonceGen::next returns the stored nonce and then increments the
\* stored value by one as a big-endian number, carrying from the rightmost
\* byte leftwards: the stored value after i draws is start + i (mod
\* 2^(8*24)), so from ..00 FF FF the draws are ..00 FF FF, ..01 00 00,
\* ..01 00 01, and all-0xFF is followed by all zeros.
C17_NonceIncrement ==
    /\ bench.gen = Plus(bench.start, bench.calls)
    /\ Len(bench.gen) = NonceLen
    /\ bench.op = "next" =>
          /\ bench.nonce = bench.gen0
          /\ bench.gen = Succ(bench.nonce)
          /\ Low3(bench.gen) = (Low3(bench.nonce) + 1) % (ByteBase * ByteBase * ByteBase)
          /\ bench.nonce = EdgeNonce(0, 0, LastByte, LastByte) =>
                bench.gen = EdgeNonce(0, 1, 0, 0)
          /\ bench.nonce = EdgeNonce(0, 1, 0, 0) => bench.gen = EdgeNonce(0, 1, 0, 1)
          /\ bench.nonce = EdgeNonce(LastByte, LastByte, LastByte, LastByte) =>
                bench.gen = EdgeNonce(0, 0, 0, 0)

\* The third draw from ..00 FF FF has returned ..01 00 01.
C17_Witness ==
    /\ bench.start = EdgeNonce(0, 0, LastByte, LastByte)
    /\ bench.op = "next" /\ bench.calls = 3
    /\ bench.nonce = EdgeNonce(0, 1, 0, 1)

\* The plaintext of the frame a send future is writing.
InFlight == IF boxw.state = "Sending" THEN boxw.fut.body ELSE <<>>

\* Every accepted byte is in exactly one place, in order: in a whole frame
\* on the wire, in the frame in flight, or in the frame buffer.
Conserved == Decoded.plain \o InFlight \o boxw.v = Accepted

\* What is left to write of the frame or goodbye in flight completes it.
InFlightWhole ==
    boxw.state \in {"Sending", "SendingClose"} =>
        Decode(Written \o boxw.fut.todo, NONCE_BYTES, NoStream) =
            [NoStream EXCEPT !.plain = Decoded.plain \o InFlight,
                             !.frames = wobs.frames,
                             !.gb = wobs.goodbyes]

\* C18: no loss across Pending on the write side. As long as the transport
\* has returned no error, every accepted byte is in a whole frame on the
\* wire, in the frame in flight or in the frame buffer, once and in order,
\* and the cells still to write complete the frame in flight; a call that
\* returns Pending accepts no byte of its buf and leaves a future to poll.
C18_NoLossAcrossPending ==
    /\ [](t.conn # "broken" => (Conserved /\ InFlightWhole))
    /\ [][(WriterCall /\ wobs'.res.tag = "Pending")
            => /\ wobs'.acc = wobs.acc
               /\ wobs'.op = "poll_write" => boxw'.v = boxw.v
               /\ t'.conn = "open"
               /\ boxw'.state \in {"Buffering", "Sending", "SendingClose", "Closing"}]_vars

\* A poll_write with bytes to give has returned Pending, part of the frame
\* in flight being on the wire.
C18_Witness ==
    /\ wobs.op = "poll_write" /\ wobs.len >= 1 /\ wobs.res.tag = "Pending"
    /\ boxw.state = "Sending"
    /\ Decoded.part > 0 /\ Len(boxw.fut.todo) > 0

\* The nonce a tag was made under.
NonceOf(tag) == tag[1].t[2]

\* The nonces of the authenticated operations behind a stream, in order:
\* for each whole header the nonce of its tag, and for a header that is not
\* a goodbye the nonce of the body tag it carries.
RECURSIVE UsedNonces(_, _)

UsedInHead(w, used, hn, o) ==
    IF ~o.ok THEN used
    ELSE IF IsGoodbye(read_u16(SubSeq(o.plain, 1, SizeLen)),
                      SubSeq(o.plain, SizeLen + 1, SizeLen + TagLen))
    THEN Append(used, [kind |-> "goodbye", nonce |-> hn])
    ELSE UsedNonces(Drop(w, HeadLen + read_u16(SubSeq(o.plain, 1, SizeLen))),
                    used \o <<[kind |-> "head", nonce |-> hn],
                              [kind |-> "body",
                               nonce |-> NonceOf(SubSeq(o.plain, SizeLen + 1, SizeLen + TagLen))]>>)

UsedNonces(w, used) ==
    IF Len(w) < HeadLen THEN used
    ELSE UsedInHead(w, used, NonceOf(HeadTag(w)),
                    open_detached(SubSeq(w, TagLen + 1, HeadLen), SubSeq(w, 1, TagLen),
                                  NonceOf(HeadTag(w)), KEY_BYTES))

\* C19: nonce order. The i-th authenticated operation behind the wire (i
\* from 0) is under nonce start + i: header then body for each frame, and a
\* single nonce for the goodbye, which comes last; no nonce is used twice.
\* The reader's opens are as many of these, in the same order: on an
\* unaltered wire none fails, and with the goodbye opened the reader has
\* drawn one nonce more than two for each body and its sequence equals the
\* writer's.
C19_NonceOrder ==
    LET used == UsedNonces(Written, <<>>)
    IN  /\ \A i \in 1..Len(used) :
              /\ used[i].nonce = Advance(NONCE_BYTES, i - 1)
              /\ used[i].kind = IF i % 2 = 0 THEN "body"
                                ELSE IF i = 2 * wobs.frames + 1 THEN "goodbye" ELSE "head"
        /\ \A i, j \in 1..Len(used) : i # j => used[i].nonce # used[j].nonce
        /\ robs.heads + robs.bodies <= Len(used)
        /\ robs.heads - robs.bodies \in {0, 1}
        /\ t.tampered = {} => FailedOpens = 0
        /\ robs.ended = "goodbye" =>
              /\ robs.heads = robs.bodies + 1
              /\ robs.nonces = 2 * robs.bodies + 1
              /\ used[Len(used)].kind = "goodbye"
              /\ boxr.noncegen = boxw.noncegen

\* The reader has opened two frames and the goodbye.
C19_Witness == robs.ended = "goodbye" /\ robs.bodies >= 2

\* C20: the reader rejects oversized bodies. The reader never sets out to
\* read a body of more than MaxBody bytes, never holds the plaintext of one
\* and delivers none of it.
C20_RejectOversize ==
    /\ (boxr.state = "Future" /\ boxr.fut.pc = "body") => boxr.fut.body_size <= MaxBody
    /\ Len(boxr.data) <= MaxBody
    /\ robs.opened <= robs.bodies * MaxBody

\* The chunk the recv future is reading: its size, and what has been read of
\* the current frame part (the head is read as its tag and then its payload).
Want ==
    CASE boxr.fut.pc = "head_tag"     -> TagLen
      [] boxr.fut.pc = "head_payload" -> SizeLen + TagLen
      [] OTHER                        -> boxr.fut.body_size

ReadSoFar ==
    IF boxr.state # "Future" THEN <<>>
    ELSE IF boxr.fut.pc = "head_payload" THEN boxr.fut.head_tag \o boxr.fut.got
    ELSE boxr.fut.got

\* The cells taken from the transport since the last head or body was opened.
Unopened == SubSeq(t.wire, robs.okEnd + 1, t.rpos)

\* C21: short reads.  While the reader is open, the cells taken from the
\* transport and not yet opened are exactly the ones the recv future holds:
\* none is lost and none is read twice, a suspended future holds fewer cells
\* than the chunk it reads (TagLen and then SizeLen + TagLen for a head,
\* HeadLen in all, body_size for a body) and nothing of the next chunk, and
\* every nonce drawn has opened one head or one body.  A poll_read that
\* returns Pending was starved by the transport, leaves the reader in Future,
\* never gives a cell back, draws one nonce per head or body it opened, and
\* when it stays in the same chunk it draws no nonce and keeps what it held.
C21_ShortReads ==
    /\ [](/\ ~BoxReader_is_closed(boxr) => Unopened = ReadSoFar
          /\ boxr.state = "Future" =>
                /\ Len(boxr.fut.got) < Want
                /\ Len(ReadSoFar) < (IF boxr.fut.pc = "body" THEN boxr.fut.body_size
                                     ELSE HeadLen)
                /\ robs.res.tag = "Pending" \/ robs.res.tag = "None"
          /\ robs.nonces = robs.heads + robs.bodies + FailedOpens)
    /\ [][(ReaderCall /\ robs'.res.tag = "Pending")
            => /\ boxr'.state = "Future"
               /\ robs'.starved
               /\ t'.rpos >= t.rpos
               /\ robs'.nonces - robs.nonces
                     = (robs'.heads - robs.heads) + (robs'.bodies - robs.bodies)
               /\ (boxr.state = "Future" /\ boxr'.fut.pc = boxr.fut.pc
                                         /\ robs'.heads = robs.heads)
                     => /\ boxr'.noncegen = boxr.noncegen
                        /\ IsPrefix(boxr.fut.got, boxr'.fut.got)
                        /\ Len(boxr'.fut.got) - Len(boxr.fut.got) = t'.rpos - t.rpos]_vars

\* A poll_read returned Pending with a part of a body read.
C21_Witness ==
    /\ robs.res.tag = "Pending"
    /\ boxr.state = "Future" /\ boxr.fut.pc = "body"
    /\ Len(boxr.fut.got) >= 1
    /\ robs.bodies >= 1

\* A send or send_close future is in flight: the writer's sender is in it.
SendInFlight ==
    \/ boxw.state = "Sending"
    \/ boxw.state = "SendingClose" /\ ~boxw.fut.done

\* A recv future is in flight: the reader's receiver is in it.
RecvInFlight == boxr.state = "Future"

\* C22: into_inner gives the transport back without a panic, on the writer
\* from Buffering and from Closed, and on the reader from every state; the
\* sender (the receiver) is present whenever no send (recv) future is in
\* flight.
C22_IntoInner ==
    /\ (wobs.op = "into_inner" /\ boxw.state \in {"Buffering", "Closed"})
          => wobs.res.tag = "Ok"
    /\ robs.err = "into_inner" => robs.res.tag = "Ok"
    /\ (Held /\ ~boxw.panicked /\ ~SendInFlight) => boxw.sender
    /\ (Held /\ ~boxr.panicked /\ ~RecvInFlight) => boxr.receiver

\* Neither caller has a call left to make.
RunOver ==
    /\ ~(Polls("poll_write") \/ Polls("poll_flush") \/ Polls("poll_close"))
    /\ boxr.panicked \/ BoxReader_is_closed(boxr)

\* A step of the writer's (the reader's) caller.
WriterPolled == boxr' = boxr /\ robs' = robs
ReaderPolled == boxw' = boxw /\ wobs' = wobs

\* How far the writer has come: the cells handed to the transport, and the
\* stage of the close.
WriterRank ==
    Len(t.wire) + (CASE boxw.state = "SendingClose" -> 1
                     [] boxw.state = "Closing"      -> 2
                     [] boxw.state = "Closed"       -> 3
                     [] OTHER                       -> 0)

\* C23: progress under fairness, in its finite-run form.  With a transport
\* that takes and supplies every byte in the end and callers that poll again
\* after Pending, a run goes on until neither caller has a call to make.
\* Every such run has its end: a poll that returns Pending again after
\* Pending, unless the transport did nothing for it, has moved cells to the
\* transport (from the transport) or has moved the close a stage on, so
\* there are finitely many of them before poll_flush, poll_close or poll_read
\* returns Ready.  And at its end the run is complete: the writer's close
\* has returned Ready(Ok), the reader has delivered every byte the writer
\* accepted and has returned Ready(Ok(0)); neither half is left in a sending
\* or a reading state.
C23_Progress ==
    /\ [](RunOver =>
             /\ CloseCompleted /\ wobs.op = "poll_close" /\ wobs.res.tag = "Ok"
             /\ robs.delivered = Accepted
             /\ BoxReader_is_closed(boxr) /\ robs.res = Res("Ok", 0))
    /\ [][/\ (WriterPolled /\ wobs.res.tag = "Pending" /\ wobs'.res.tag = "Pending")
                => (<<boxw, t>>' = <<boxw, t>> \/ WriterRank' > WriterRank)
          /\ (ReaderPolled /\ robs.res.tag = "Pending" /\ robs'.res.tag = "Pending")
                => (<<boxr, t>>' = <<boxr, t>> \/ t'.rpos > t.rpos)]_vars

\* C24: a close in progress.  With the writer in SendingClose or Closing
\* (poll_close has returned Pending or an error and is_closed() is false), a
\* further poll_write with a non-empty buf, poll_flush or poll_close does not
\* panic.
C24_CloseInProgress ==
    [][(/\ WriterCall
        /\ boxw.state \in {"SendingClose", "Closing"}
        /\ ~BoxWriter_is_closed(boxw)
        /\ wobs'.op = "poll_write" => wobs'.len >= 1)
          => wobs'.res.tag # "Panic"]_vars

====
